---- MODULE Spec2Model ----
(***************************************************************************)
(* Handoff.ai: the page (src/src/app/page.tsx) that classifies uploaded    *)
(* files and starts a generation, and the /api/summary route               *)
(* (src/unnamed/part_000) that validates the request, composes a prompt,   *)
(* calls the completion service and maps its answer to a response.         *)
(*                                                                         *)
(* A JavaScript string is a sequence of tokens: one-character strings for  *)
(* text the code inspects (file names, whitespace), whole literals for     *)
(* fixed messages.  A JavaScript value that may be undefined is a record   *)
(* [t |-> "undefined"] or [t |-> "string", v |-> <<...>>].                 *)
(***************************************************************************)
EXTENDS Integers, Sequences, FiniteSets, TLC

\* ------------------------------------------------------------------- state
VARIABLES
    uploadedFiles,  \* page: useState<File[]>
    isLoading,      \* page: useState(false)
    loadingType,    \* page: useState<GenerationType | null>
    results,        \* page: useState<{readme?, cursorLog?, summary?}>
    error,          \* page: useState('')
    timers,         \* page: pending setTimeout(() => setError(''), 3000)
    gpc,            \* page: where each generateContent call stands
    gen,            \* page: the locals of each generateContent call
    gens,           \* page: generations started so far
    apiKey,         \* route: process.env.NVIDIA_API_KEY
    spc,            \* route: where the POST handler stands
    req,            \* route: the request being handled
    upCall,         \* route: the fetch sent to the completion service
    calls,          \* route: fetches sent while handling req
    upRes,          \* route: what the fetch produced
    resp,           \* route: the response returned by POST
    serverLog,      \* route: console.error lines of this request
    composed,       \* probe: the calls of getPrompt made so far, with their results
    classified      \* probe: the evaluations of the file list made so far

\* ------------------------------------------------------------------ bounds
\* longest uploaded file list explored
MaxFiles == 3
\* longest batch handed to handleFileSelect at once
MaxBatch == 1
\* most 3-second timers pending at once
MaxTimers == 1
\* most generations started by the page
MaxGens == 2

\* ------------------------------------------------------- JavaScript values
Undef == [t |-> "undefined"]

Str(s) == [t |-> "string", v |-> s]

\* !x is false exactly for a non-empty string (undefined and '' are falsy)
Truthy(x) == x.t = "string" /\ x.v # <<>>

Whitespace == {" ", "\n", "\t"}

RECURSIVE TrimStart(_)
TrimStart(s) ==
    IF s # <<>> /\ Head(s) \in Whitespace THEN TrimStart(Tail(s)) ELSE s

RECURSIVE TrimEnd(_)
TrimEnd(s) ==
    IF s # <<>> /\ s[Len(s)] \in Whitespace
    THEN TrimEnd(SubSeq(s, 1, Len(s) - 1))
    ELSE s

\* String.prototype.trim
Trim(s) == TrimEnd(TrimStart(s))

\* String.prototype.split(sep) for a one-character separator: the segments
\* between the separators, always at least one
RECURSIVE Split(_, _)
Split(s, sep) ==
    IF s = <<>> THEN << <<>> >>
    ELSE LET rest == Split(Tail(s), sep) IN
         IF Head(s) = sep
         THEN << <<>> >> \o rest
         ELSE << <<Head(s)>> \o rest[1] >> \o Tail(rest)

\* Array.prototype.pop on a fresh array: its last element
Pop(a) == a[Len(a)]

LowerOf ==
    [c \in {"D", "J", "M", "S", "T", "X", "Y"} |->
        CASE c = "D" -> "d" [] c = "J" -> "j" [] c = "M" -> "m"
          [] c = "S" -> "s" [] c = "T" -> "t" [] c = "X" -> "x"
          [] c = "Y" -> "y"]

\* String.prototype.toLowerCase
ToLowerCase(s) ==
    [i \in 1..Len(s) |-> IF s[i] \in DOMAIN LowerOf THEN LowerOf[s[i]] ELSE s[i]]

\* Array.prototype.includes
Includes(list, x) == \E i \in 1..Len(list) : list[i] = x

\* ------------------------------------------------- page.tsx: the classifier
MimePlain == <<"text/plain">>

MimeMarkdown == <<"text/markdown">>

MimeJavascript == <<"text/javascript">>

MimeApplicationJavascript == <<"application/javascript">>

acceptedFileTypes ==
    << <<".", "m", "d">>, <<".", "t", "x", "t">>, <<".", "j", "s">>, <<".", "t", "s">> >>

acceptedMimeTypes ==
    <<MimeMarkdown, MimePlain, MimeJavascript, MimeApplicationJavascript>>

\* '.' + name.split('.').pop()?.toLowerCase()
extensionOf(f) == <<".">> \o ToLowerCase(Pop(Split(f.name, ".")))

isValidFile(f) ==
    \/ Includes(acceptedFileTypes, extensionOf(f))
    \/ Includes(acceptedMimeTypes, f.type)

\* isChatFile testing the name with one regular expression that carries the g
\* flag: its lastIndex survives an evaluation, so every second one finds nothing
isChatFileGlobalRegex(f) ==
    /\ Len(classified) % 2 = 0
    /\ Includes(<< <<".", "m", "d">>, <<".", "t", "x", "t">> >>, extensionOf(f))

\* the callback of lines 37-40 and 102-105
isChatFile(f) ==
    Includes(<< <<".", "m", "d">>, <<".", "t", "x", "t">> >>, extensionOf(f))

\* the callback of lines 41-44 and 108-111
isCodeFile(f) ==
    Includes(<< <<".", "j", "s">>, <<".", "t", "s">> >>, extensionOf(f))

\* uploadedFiles.some(...) of line 37
hasMarkdown(files) == \E i \in 1..Len(files) : isChatFile(files[i])

\* uploadedFiles.some(...) of line 41
hasCode(files) == \E i \in 1..Len(files) : isCodeFile(files[i])

\* uploadedFiles.find(...) of line 102: the first chat file, else undefined
findMarkdownFile(files) ==
    IF hasMarkdown(files)
    THEN files[CHOOSE i \in 1..Len(files) :
                   isChatFile(files[i]) /\ \A j \in 1..(i - 1) : ~isChatFile(files[j])]
    ELSE Undef

\* uploadedFiles.find(...) of line 108: the first code file, else undefined
findCodeFile(files) ==
    IF hasCode(files)
    THEN files[CHOOSE i \in 1..Len(files) :
                   isCodeFile(files[i]) /\ \A j \in 1..(i - 1) : ~isCodeFile(files[j])]
    ELSE Undef

\* fileArray.filter(isValidFile)
RECURSIVE validFilesOf(_)
validFilesOf(fileArray) ==
    IF fileArray = <<>> THEN <<>>
    ELSE (IF isValidFile(Head(fileArray)) THEN <<Head(fileArray)>> ELSE <<>>)
           \o validFilesOf(Tail(fileArray))

hasRequiredFiles(files) == hasMarkdown(files) /\ hasCode(files)

\* ---------------------------------------------- route: the prompt templates
TypeSummary == <<"summary">>

TypeCursor == <<"cursor">>

TypeReadme == <<"readme">>

Separator == <<"---">>

SummaryInstructions ==
    <<"Summarize the following AI-assisted development session in 2-3 sentences.">>

CursorInstructions ==
    <<"You are an AI memory generator for coding assistants like Cursor.">>

CursorTrailer ==
    <<"Please return only the structured context document">>

ReadmeInstructions ==
    <<"You are a senior AI developer assistant.">>

CombinedInstructions ==
    <<"You're an AI summarizer for engineering handoffs.">>

CombinedTrailer ==
    <<"Please provide your response in the following format:">>

ChatTranscriptHeading == <<"## Chat Transcript:">>

ChatExportHeading == <<"## Chat Export:">>

FinalCodeHeading == <<"## Final Code:">>

\* getPrompt without its default case: an unknown type gets the summary template
getPromptSummaryDefault(type, markdown, code) ==
    CASE type = TypeCursor ->
           CursorInstructions \o Separator \o ChatTranscriptHeading \o markdown
             \o FinalCodeHeading \o code \o Separator \o CursorTrailer
      [] type = TypeReadme ->
           ReadmeInstructions \o Separator \o ChatTranscriptHeading \o markdown
             \o FinalCodeHeading \o code
      [] OTHER ->
           SummaryInstructions \o Separator \o ChatTranscriptHeading \o markdown
             \o FinalCodeHeading \o code

\* getPrompt numbering its calls from a module-level counter: every prompt
\* after the first of the process carries a mark
getPromptNumbered(type, markdown, code) ==
    (IF type = TypeSummary THEN SummaryInstructions
     ELSE IF type = TypeCursor THEN CursorInstructions
     ELSE IF type = TypeReadme THEN ReadmeInstructions
     ELSE CombinedInstructions)
      \o (IF composed = <<>> THEN <<>> ELSE <<"(again)">>)
      \o Separator \o markdown \o FinalCodeHeading \o code

\* getPrompt with the two interpolations exchanged: the code under the chat
\* heading and the transcript under the code heading
getPromptCodeFirst(type, markdown, code) ==
    CASE type = TypeSummary ->
           SummaryInstructions \o Separator \o ChatTranscriptHeading \o code
             \o FinalCodeHeading \o markdown
      [] type = TypeCursor ->
           CursorInstructions \o Separator \o ChatTranscriptHeading \o code
             \o FinalCodeHeading \o markdown \o Separator \o CursorTrailer
      [] type = TypeReadme ->
           ReadmeInstructions \o Separator \o ChatTranscriptHeading \o code
             \o FinalCodeHeading \o markdown
      [] OTHER ->
           CombinedInstructions \o Separator \o ChatExportHeading \o code
             \o FinalCodeHeading \o markdown \o Separator \o CombinedTrailer

\* getPrompt(type: string, markdown: string, code: string)

getPrompt(type, markdown, code) ==
    CASE type = TypeSummary ->
           SummaryInstructions \o Separator \o ChatTranscriptHeading \o markdown
             \o FinalCodeHeading \o code
      [] type = TypeCursor ->
           CursorInstructions \o Separator \o ChatTranscriptHeading \o markdown
             \o FinalCodeHeading \o code \o Separator \o CursorTrailer
      [] type = TypeReadme ->
           ReadmeInstructions \o Separator \o ChatTranscriptHeading \o markdown
             \o FinalCodeHeading \o code
      [] OTHER ->
           CombinedInstructions \o Separator \o ChatExportHeading \o markdown
             \o FinalCodeHeading \o code \o Separator \o CombinedTrailer

\* --------------------------------------------- route: responses and errors
NoBody == [error |-> Undef, summary |-> Undef, cursorLog |-> Undef, readme |-> Undef]

\* ErrorResponse whose body also carries an empty summary field
ErrorResponseWithSummary(message, status) ==
    [status |-> status,
     body |-> [NoBody EXCEPT !.error = Str(message), !.summary = Str(<<>>)]]

\* NextResponse.json({ error: message }, { status })
ErrorResponse(message, status) ==
    [status |-> status, body |-> [NoBody EXCEPT !.error = Str(message)]]

NoResponse == [status |-> 0, body |-> NoBody]

MsgFieldsRequired == <<"Both markdown and code fields are required">>

MsgConfig == <<"Server configuration error: ", "API key", " not found">>

\* the line console.error writes when the key is missing
MsgKeyNotSet == <<"NVIDIA_API_KEY", " is not set in environment variables">>

MsgGeneric == <<"Failed to generate content">>

MsgInvalidKey == <<"Invalid ", "API key">>

MsgRateLimit == <<"Rate limit exceeded. Please try again later.">>

MsgUnavailable == <<"NVIDIA API service unavailable">>

MsgNoContent == <<"No content generated from AI">>

MsgInvalidJson == <<"Invalid JSON in request body">>

MsgInternal == <<"Internal server error occurred while processing your request">>

\* typeOf without the default: an omitted type stays the string 'undefined'
typeOfNoDefault(r) == IF r.type = Undef THEN <<"undefined">> ELSE r.type.v

\* const { markdown, code, type = 'summary' } = ...: the default applies to undefined
typeOf(r) == IF r.type = Undef THEN TypeSummary ELSE r.type.v

\* ${x} in a template literal: the string itself, 'undefined' for undefined
templateOf(x) == IF x = Undef THEN <<"undefined">> ELSE x.v

\* the guard of "Validate input": !markdown || !code
inputMissing(markdown, code) == ~Truthy(markdown) \/ ~Truthy(code)

\* maxTokens with the long cap for every type
maxTokensAlwaysLong(type) == 2048

\* max_tokens: type === 'summary' ? 512 : 2048
maxTokens(type) == IF type = TypeSummary THEN 512 ELSE 2048

\* Response.ok
ResponseOk(status) == status >= 200 /\ status <= 299

\* upstreamErrorMessage with the last comparison strict: 500 itself is generic
upstreamErrorMessageStrict(status) ==
    IF status = 401 THEN <<"Invalid ", "API key">>
    ELSE IF status = 429 THEN <<"Rate limit exceeded. Please try again later.">>
    ELSE IF status > 500 THEN <<"NVIDIA API service unavailable">>
    ELSE <<"Failed to generate content">>

\* the errorMessage chosen for a non-OK upstream status
upstreamErrorMessage(status) ==
    IF status = 401 THEN MsgInvalidKey
    ELSE IF status = 429 THEN MsgRateLimit
    ELSE IF status >= 500 THEN MsgUnavailable
    ELSE MsgGeneric

\* upstreamErrorStatus answering 500 whatever the upstream status
upstreamErrorStatusFixed(status) == 500

\* the status of the response to a non-OK upstream status: response.status
upstreamErrorStatus(status) == status

\* data.choices?.[0]?.message?.content || ''
firstContent(data) ==
    IF /\ data.hasChoices
       /\ Len(data.choices) > 0
       /\ data.choices[1].hasMessage
       /\ Truthy(data.choices[1].content)
    THEN data.choices[1].content.v
    ELSE <<>>

\* noContent testing for undefined only, which a string never is
noContentUndefinedOnly(content) == FALSE

\* resultFor with the cursor and readme branches exchanged
resultForSwapped(type, content) ==
    IF type = TypeSummary THEN [NoBody EXCEPT !.summary = Str(content)]
    ELSE IF type = TypeCursor THEN [NoBody EXCEPT !.readme = Str(content)]
    ELSE IF type = TypeReadme THEN [NoBody EXCEPT !.cursorLog = Str(content)]
    ELSE NoBody

\* the guard !content of line 218 (content is a string here)
noContent(content) == content = <<>>

\* "Handle response based on type": the result object
resultFor(type, content) ==
    IF type = TypeSummary THEN [NoBody EXCEPT !.summary = Str(content)]
    ELSE IF type = TypeCursor THEN [NoBody EXCEPT !.cursorLog = Str(content)]
    ELSE IF type = TypeReadme THEN [NoBody EXCEPT !.readme = Str(content)]
    ELSE NoBody

\* catchResponse answering every caught error, a SyntaxError included, as internal
catchResponseInternalOnly(isSyntaxError) == ErrorResponse(MsgInternal, 500)

\* the catch block: a SyntaxError is answered 400, anything else 500
catchResponse(isSyntaxError) ==
    IF isSyntaxError
    THEN ErrorResponse(MsgInvalidJson, 400)
    ELSE ErrorResponse(MsgInternal, 500)

\* ------------------------------------------------------------ input sets
\* most calls of a pure function followed in one behaviour
MaxEvals == 2

\* most completion choices in one upstream answer
MaxChoices == 2

\* texts of uploaded files, and of the fields of a request sent to the route
Contents == {<<>>, <<" ">>, <<"x">>, <<" ", "x", "\n">>}

\* the type field of a request: omitted, a recognised type, or another string
TypeOther == <<"combined">>

RequestTypes ==
    {Undef, Str(TypeSummary), Str(TypeCursor), Str(TypeReadme), Str(TypeOther)}

\* process.env.NVIDIA_API_KEY: unset, empty, or one of two keys
ApiKeys == {Undef, Str(<<>>), Str(<<"nvapi-1">>), Str(<<"nvapi-2">>)}

UpstreamStatuses == {200, 201, 401, 403, 429, 500, 503}

Completions == {<<"Built X using Y.">>, <<"Refactored Z.">>}

\* the body of a non-OK upstream answer
RawBodies == {<<"{\"detail\":\"upstream said no\"}">>}

\* one element of data.choices: message missing, or message.content a string
Choices ==
    {[hasMessage |-> FALSE, content |-> Undef]}
      \cup {[hasMessage |-> TRUE, content |-> Str(c)] : c \in Completions \cup {<<>>}}

ChoiceLists == UNION {[1..n -> Choices] : n \in 0..MaxChoices}

NoData == [hasChoices |-> FALSE, choices |-> <<>>]

\* the parsed body of an OK upstream answer
UpstreamData ==
    {NoData} \cup {[hasChoices |-> TRUE, choices |-> l] : l \in ChoiceLists}

NoOutcome ==
    [kind |-> "none", status |-> 0, text |-> <<>>, parses |-> FALSE, data |-> NoData]

\* what the outbound fetch can produce: a rejection, a non-OK answer with a raw
\* body, an OK answer whose body is not JSON, an OK answer with parsed data
UpstreamOutcomes ==
    {[NoOutcome EXCEPT !.kind = "rejected"]}
      \cup {[NoOutcome EXCEPT !.kind = "answer", !.status = s, !.text = b] :
              s \in {u \in UpstreamStatuses : ~ResponseOk(u)}, b \in RawBodies}
      \cup {[NoOutcome EXCEPT !.kind = "answer", !.status = s] :
              s \in {u \in UpstreamStatuses : ResponseOk(u)}}
      \cup {[NoOutcome EXCEPT !.kind = "answer", !.status = s, !.parses = TRUE, !.data = d] :
              s \in {u \in UpstreamStatuses : ResponseOk(u)}, d \in UpstreamData}

\* the upstream outcomes met during a session of the page: one of each kind
\* (a rejection, a refusal, a body that is no JSON, an empty completion) and a
\* single completion with either text
SessionOutcomes ==
    {o \in UpstreamOutcomes :
        \/ o.kind = "rejected"
        \/ o.status = 429
        \/ o.status = 200 /\ ~o.parses
        \/ o.status = 200 /\ o.parses /\ o.data.hasChoices /\ Len(o.data.choices) = 1
             /\ o.data.choices[1].hasMessage}

File(name, type) == [name |-> name, type |-> type]

FilePy == File(<<"a", ".", "p", "y">>, MimePlain)

FileTxt == File(<<"Y", ".", "T", "X", "T">>, MimePlain)

FileJs == File(<<"c", ".", "j", "s">>, MimeJavascript)

\* a name without any '.', with the empty type browsers report for it
FileNoExt == File(<<"m", "d">>, <<>>)

FilePng == File(<<"z", ".", "p", "n", "g">>, <<"image/png">>)

\* the files a user can drop or pick
SelectableFiles == {FilePy, FileTxt, FileJs, FileNoExt, FilePng}

Batches == UNION {[1..n -> SelectableFiles] : n \in 1..MaxBatch}

GenerationTypes == {TypeSummary, TypeCursor, TypeReadme}

NoRequest ==
    [from |-> "none", body |-> "object", markdown |-> Undef, code |-> Undef,
     type |-> Undef]

\* requests sent to the route by any HTTP client
DirectRequests ==
    {[NoRequest EXCEPT !.from = "direct", !.body = "malformed"]}
      \cup {[from |-> "direct", body |-> "object", markdown |-> m, code |-> c, type |-> t] :
              m \in {Undef} \cup {Str(x) : x \in Contents},
              c \in {Undef} \cup {Str(x) : x \in Contents},
              t \in RequestTypes}

NVIDIA_API_URL == <<"https://integrate.api.nvidia.com/v1">>

MODEL_NAME == <<"nvidia/llama-3.1-nemotron-nano-8b-v1">>

NoCall ==
    [url |-> <<>>, authorization |-> <<>>, model |-> <<>>, prompt |-> <<>>,
     temperature |-> "", top_p |-> 0, max_tokens |-> 0, stream |-> FALSE]

pageVars == <<uploadedFiles, isLoading, loadingType, results, error, timers, gpc, gen, gens>>

routeVars == <<apiKey, spc, req, upCall, calls, upRes, resp, serverLog>>

probeVars == <<composed, classified>>

vars == <<uploadedFiles, isLoading, loadingType, results, error, timers, gpc, gen, gens,
          apiKey, spc, req, upCall, calls, upRes, resp, serverLog, composed, classified>>

NoResults == [summary |-> Undef, cursorLog |-> Undef, readme |-> Undef]

NoGen == [type |-> <<>>, markdownFile |-> Undef, codeFile |-> Undef]

\* the state in which the page holds one of the given lists, nothing is
\* running, and the server process has one of the given values of NVIDIA_API_KEY
StartWith(keys, lists) ==
    /\ uploadedFiles \in lists
    /\ isLoading = FALSE
    /\ loadingType = Undef
    /\ results = NoResults
    /\ error = <<>>
    /\ timers = 0
    /\ gpc = [g \in 1..MaxGens |-> "idle"]
    /\ gen = [g \in 1..MaxGens |-> NoGen]
    /\ gens = 0
    /\ apiKey \in keys
    /\ spc = "idle"
    /\ req = NoRequest
    /\ upCall = NoCall
    /\ calls = 0
    /\ upRes = NoOutcome
    /\ resp = NoResponse
    /\ serverLog = <<>>
    /\ composed = <<>>
    /\ classified = <<>>

\* the page is mounted with no file uploaded
Start(keys) == StartWith(keys, {<<>>})

\* the page runs against a server whose key is unset or set
Init == Start({Undef, Str(<<"nvapi-1">>)})

\* the route is exercised with every value of the key
InitPost == Start(ApiKeys)

\* ------------------------------------------------------- route: POST handler
LogLine(line, status, text) == [line |-> line, status |-> status, text |-> text]

\* earlyReturn with the key resolved before the input is validated
earlyReturnKeyFirst(r, key) ==
    IF r.body = "malformed" THEN "SyntaxError"
    ELSE IF ~Truthy(key) THEN "ConfigMissing"
    ELSE IF inputMissing(r.markdown, r.code) THEN "BadInput"
    ELSE "none"

\* earlyReturn with the key test inverted: a key that is set is reported missing
earlyReturnKeyInverted(r, key) ==
    IF r.body = "malformed" THEN "SyntaxError"
    ELSE IF inputMissing(r.markdown, r.code) THEN "BadInput"
    ELSE IF Truthy(key) THEN "ConfigMissing"
    ELSE "none"

\* earlyReturn accepting a single key: any other key is reported missing
earlyReturnOneKey(r, key) ==
    IF r.body = "malformed" THEN "SyntaxError"
    ELSE IF inputMissing(r.markdown, r.code) THEN "BadInput"
    ELSE IF key # Str(<<"nvapi-1">>) THEN "ConfigMissing"
    ELSE "none"

\* lines 149-167: which return, if any, ends the handler before the fetch
earlyReturn(r, key) ==
    IF r.body = "malformed" THEN "SyntaxError"
    ELSE IF inputMissing(r.markdown, r.code) THEN "BadInput"
    ELSE IF ~Truthy(key) THEN "ConfigMissing"
    ELSE "none"

\* lines 146-192: parse, validate, resolve the key, compose, send the fetch
PostStart ==
    /\ spc = "received"
    /\ UNCHANGED <<probeVars, pageVars, apiKey, req, upRes>>
    /\ LET early == earlyReturn(req, apiKey) IN
       IF early = "SyntaxError"
       THEN \* request.json() throws a SyntaxError: the catch block
            /\ serverLog' = Append(serverLog, LogLine(<<"API Error:">>, 0, <<"SyntaxError">>))
            /\ resp' = catchResponse(TRUE)
            /\ spc' = "responded"
            /\ UNCHANGED <<upCall, calls>>
       ELSE IF early = "BadInput"
       THEN /\ resp' = ErrorResponse(MsgFieldsRequired, 400)
            /\ spc' = "responded"
            /\ UNCHANGED <<upCall, calls, serverLog>>
       ELSE IF early = "ConfigMissing"
       THEN /\ serverLog' = Append(serverLog,
                LogLine(MsgKeyNotSet, 0, <<>>))
            /\ resp' = ErrorResponse(MsgConfig, 500)
            /\ spc' = "responded"
            /\ UNCHANGED <<upCall, calls>>
       ELSE /\ upCall' =
                [url |-> NVIDIA_API_URL \o <<"/chat/completions">>,
                 authorization |-> <<"Bearer ">> \o templateOf(apiKey),
                 model |-> MODEL_NAME,
                 prompt |-> getPrompt(typeOf(req), req.markdown.v, req.code.v),
                 temperature |-> "0.7",
                 top_p |-> 1,
                 max_tokens |-> maxTokens(typeOf(req)),
                 stream |-> FALSE]
            /\ calls' = calls + 1
            /\ spc' = "awaiting"
            /\ UNCHANGED <<resp, serverLog>>

\* lines 194-260: the fetch settles with outcome o and the handler answers
PostFinishWith(o) ==
    /\ spc = "awaiting"
    /\ upRes' = o
    /\ IF o.kind = "rejected"
       THEN \* fetch throws a TypeError: the catch block
            /\ serverLog' = Append(serverLog, LogLine(<<"API Error:">>, 0, <<"TypeError">>))
            /\ resp' = catchResponse(FALSE)
       ELSE IF ~ResponseOk(o.status)
       THEN /\ serverLog' = Append(serverLog,
                LogLine(<<"NVIDIA API Error:">>, o.status, o.text))
            /\ resp' = ErrorResponse(upstreamErrorMessage(o.status),
                                     upstreamErrorStatus(o.status))
       ELSE IF ~o.parses
       THEN \* response.json() throws a SyntaxError: the catch block
            /\ serverLog' = Append(serverLog, LogLine(<<"API Error:">>, 0, <<"SyntaxError">>))
            /\ resp' = catchResponse(TRUE)
       ELSE LET content == firstContent(o.data) IN
            /\ serverLog' = serverLog
            /\ resp' = IF noContent(content)
                       THEN ErrorResponse(MsgNoContent, 500)
                       ELSE [status |-> 200, body |-> resultFor(typeOf(req), content)]
    /\ spc' = "responded"
    /\ UNCHANGED <<probeVars, pageVars, apiKey, req, upCall, calls>>

\* the handler of a direct request meets any upstream outcome
PostFinish == \E o \in UpstreamOutcomes : PostFinishWith(o)

\* the handler of a request of the page meets one of the session's outcomes
PostFinishSession == \E o \in SessionOutcomes : PostFinishWith(o)

\* an HTTP client other than the page sends a request to /api/summary
DirectRequest ==
    /\ spc = "idle"
    /\ \E r \in DirectRequests : req' = r
    /\ spc' = "received"
    /\ UNCHANGED <<probeVars, pageVars, apiKey, upCall, calls, upRes, resp, serverLog>>

\* that client receives the response; the handler's locals are gone
DirectResponse ==
    /\ spc = "responded"
    /\ req.from = "direct"
    /\ spc' = "idle"
    /\ req' = NoRequest
    /\ upCall' = NoCall
    /\ calls' = 0
    /\ upRes' = NoOutcome
    /\ resp' = NoResponse
    /\ serverLog' = <<>>
    /\ UNCHANGED <<probeVars, pageVars, apiKey>>

NextPost == DirectRequest \/ PostStart \/ PostFinish \/ DirectResponse

\* the route alone, driven by arbitrary requests
SpecPost == InitPost /\ [][NextPost]_vars

\* ------------------------------------------------------- page.tsx: handlers
MsgRejected ==
    <<"Some files were rejected. Please upload only .md, .txt, .js, or .ts files.">>

MsgRequiredFiles ==
    <<"Please upload at least one chat file (.md or .txt) and one code file (.js or .ts).">>

MsgNotFound == <<"Required file types not found">>

MsgUnknown == <<"An unknown error occurred">>

MsgFailedToFetch == <<"Failed to fetch">>

\* the message of the SyntaxError of response.json() on a body that is no JSON
MsgUnexpectedToken == <<"Unexpected token < in JSON at position 0">>

\* lines 48-58
handleFileSelect(files) ==
    LET validFiles == validFilesOf(files) IN
    /\ Len(uploadedFiles) + Len(validFiles) <= MaxFiles
    /\ IF Len(validFiles) # Len(files)
       THEN /\ timers < MaxTimers
            /\ error' = MsgRejected
            /\ timers' = timers + 1
       ELSE UNCHANGED <<error, timers>>
    /\ uploadedFiles' = uploadedFiles \o validFiles
    /\ UNCHANGED <<probeVars, isLoading, loadingType, results, gpc, gen, gens, routeVars>>

\* the callback armed at line 54
TimerFires ==
    /\ timers > 0
    /\ timers' = timers - 1
    /\ error' = <<>>
    /\ UNCHANGED <<probeVars, uploadedFiles, isLoading, loadingType, results, gpc, gen, gens, routeVars>>

\* lines 77-79
removeFile(index) ==
    /\ uploadedFiles' =
         [i \in 1..(Len(uploadedFiles) - 1) |->
            IF i < index THEN uploadedFiles[i] ELSE uploadedFiles[i + 1]]
    /\ UNCHANGED <<probeVars, isLoading, loadingType, results, error, timers, gpc, gen, gens, routeVars>>

\* buttonDisabled without the isLoading test
buttonDisabledFilesOnly == ~hasRequiredFiles(uploadedFiles)

\* the disabled attribute of the three generate buttons (line 290)
buttonDisabled == isLoading \/ ~hasRequiredFiles(uploadedFiles)

\* lines 90-115: generateContent up to its first await; the call is the
\* (gens + 1)-th of the session
generateContent(type) ==
    /\ UNCHANGED <<probeVars, uploadedFiles, results, timers, routeVars>>
    /\ IF ~hasRequiredFiles(uploadedFiles)
       THEN /\ error' = MsgRequiredFiles
            /\ UNCHANGED <<isLoading, loadingType, gpc, gen, gens>>
       ELSE LET markdownFile == findMarkdownFile(uploadedFiles)
                codeFile == findCodeFile(uploadedFiles)
            IN IF markdownFile = Undef \/ codeFile = Undef
               THEN \* throw, catch, finally
                    /\ error' = MsgNotFound
                    /\ isLoading' = FALSE
                    /\ loadingType' = Undef
                    /\ UNCHANGED <<gpc, gen, gens>>
               ELSE /\ gens < MaxGens
                    /\ isLoading' = TRUE
                    /\ loadingType' = Str(type)
                    /\ error' = <<>>
                    /\ gpc' = [gpc EXCEPT ![gens + 1] = "reading"]
                    /\ gen' = [gen EXCEPT ![gens + 1] =
                                 [type |-> type, markdownFile |-> markdownFile,
                                  codeFile |-> codeFile]]
                    /\ gens' = gens + 1

\* a click on an enabled generate button
ClickGenerate(type) == ~buttonDisabled /\ generateContent(type)

\* failGeneration without the finally block: the loading state stays as it is
failGenerationNoFinally(g, message) ==
    /\ error' = message
    /\ gpc' = [gpc EXCEPT ![g] = "idle"]
    /\ gen' = [gen EXCEPT ![g] = NoGen]
    /\ UNCHANGED <<probeVars, uploadedFiles, isLoading, loadingType, results, timers, gens>>

\* lines 150-156: catch sets the message, finally clears the loading state
failGeneration(g, message) ==
    /\ error' = message
    /\ isLoading' = FALSE
    /\ loadingType' = Undef
    /\ gpc' = [gpc EXCEPT ![g] = "idle"]
    /\ gen' = [gen EXCEPT ![g] = NoGen]
    /\ UNCHANGED <<probeVars, uploadedFiles, results, timers, gens>>

\* lines 81-88, 117-133: both reads of call g resolve and the request is sent
ReadFilesResolve(g) ==
    /\ gpc[g] = "reading"
    /\ spc = "idle"
    /\ \E markdownContent \in Contents, codeContent \in Contents :
         req' = [from |-> "page", body |-> "object",
                 markdown |-> Str(Trim(markdownContent)),
                 code |-> Str(Trim(codeContent)),
                 type |-> Str(gen[g].type)]
    /\ spc' = "received"
    /\ gpc' = [gpc EXCEPT ![g] = "fetching"]
    /\ UNCHANGED <<probeVars, uploadedFiles, isLoading, loadingType, results, error, timers, gen,
                   gens, apiKey, upCall, calls, upRes, resp, serverLog>>

\* lines 85, 150-156: a read rejects with the reader's event, which is no Error
ReadFilesReject(g) ==
    /\ gpc[g] = "reading"
    /\ failGeneration(g, MsgUnknown)
    /\ UNCHANGED routeVars

\* the locals of a finished POST call
routeIdle ==
    /\ spc' = "idle"
    /\ req' = NoRequest
    /\ upCall' = NoCall
    /\ calls' = 0
    /\ upRes' = NoOutcome
    /\ resp' = NoResponse
    /\ serverLog' = <<>>
    /\ UNCHANGED apiKey

\* lines 123, 150-156: the fetch to /api/summary rejects (request or response lost)
FetchRejects(g) ==
    /\ gpc[g] = "fetching"
    /\ spc \in {"received", "responded"}
    /\ failGeneration(g, MsgFailedToFetch)
    /\ routeIdle

\* Response.statusText of the statuses an intermediary answers with
statusText(status) == IF status = 502 THEN <<"Bad Gateway">> ELSE <<"OK">>

\* `HTTP ${response.status}: ${response.statusText}`
httpMessage(status) ==
    <<"HTTP ">> \o (IF status = 502 THEN <<"502">> ELSE <<"200">>) \o <<": ">>
      \o statusText(status)

\* lines 135-140, 150-156: what arrives is not the route's JSON but the page of
\* an intermediary: errorData is {} for a non-OK status (line 136), and for an
\* OK one response.json() rejects with a SyntaxError (line 140)
FetchGarbled(g) ==
    /\ gpc[g] = "fetching"
    /\ spc \in {"received", "responded"}
    /\ \E status \in {200, 502} :
         failGeneration(g, IF ResponseOk(status) THEN MsgUnexpectedToken
                           ELSE httpMessage(status))
    /\ routeIdle

\* resultsAfter without the spread of prev: the new object holds one field
resultsReplaced(prev, type, data) ==
    IF type = TypeSummary THEN [NoResults EXCEPT !.summary = data.summary]
    ELSE IF type = TypeReadme THEN [NoResults EXCEPT !.readme = data.readme]
    ELSE IF type = TypeCursor THEN [NoResults EXCEPT !.cursorLog = data.cursorLog]
    ELSE NoResults

\* setResults of lines 143-148 for a call of the given type
resultsAfter(prev, type, data) ==
    IF type = TypeSummary THEN [prev EXCEPT !.summary = data.summary]
    ELSE IF type = TypeReadme THEN [prev EXCEPT !.readme = data.readme]
    ELSE IF type = TypeCursor THEN [prev EXCEPT !.cursorLog = data.cursorLog]
    ELSE prev

\* lines 135-156: the response of the route arrives
FetchSettles(g) ==
    /\ gpc[g] = "fetching"
    /\ spc = "responded"
    /\ routeIdle
    /\ IF ~ResponseOk(resp.status)
       THEN failGeneration(g,
                IF Truthy(resp.body.error) THEN resp.body.error.v
                ELSE httpMessage(resp.status))
       ELSE /\ results' = resultsAfter(results, gen[g].type, resp.body)
            /\ isLoading' = FALSE
            /\ loadingType' = Undef
            /\ gpc' = [gpc EXCEPT ![g] = "idle"]
            /\ gen' = [gen EXCEPT ![g] = NoGen]
            /\ UNCHANGED <<probeVars, uploadedFiles, error, timers, gens>>

Next ==
    \/ \E files \in Batches : handleFileSelect(files)
    \/ TimerFires
    \/ \E index \in 1..Len(uploadedFiles) : removeFile(index)
    \/ \E type \in GenerationTypes : ClickGenerate(type)
    \/ \E g \in 1..MaxGens : ReadFilesResolve(g)
    \/ \E g \in 1..MaxGens : ReadFilesReject(g)
    \/ PostStart
    \/ PostFinishSession
    \/ \E g \in 1..MaxGens : FetchRejects(g)
    \/ \E g \in 1..MaxGens : FetchGarbled(g)
    \/ \E g \in 1..MaxGens : FetchSettles(g)

\* the page and the route it calls
Spec == Init /\ [][Next]_vars

\* the two file reads of a running call settle, one way or the other
ReadsSettle == \E g \in 1..MaxGens : ReadFilesResolve(g) \/ ReadFilesReject(g)

\* the fetch of a running call settles, one way or another
FetchSettle ==
    \E g \in 1..MaxGens : FetchSettles(g) \/ FetchRejects(g) \/ FetchGarbled(g)

\* the page and the route, where every read and every fetch, that of the
\* page and that of the route, settles in the end
SpecLive ==
    /\ Init
    /\ [][Next]_vars
    /\ WF_vars(ReadsSettle)
    /\ WF_vars(PostStart)
    /\ WF_vars(PostFinishSession)
    /\ WF_vars(FetchSettle)

\* ------------------------------------------------- the pure functions alone
\* the modes and the non-empty texts getPrompt is called with
PromptTypes == {TypeSummary, TypeCursor, TypeReadme, TypeOther}

PromptTexts == Contents \ {<<>>}

\* one call getPrompt(type, markdown, code), its result kept with its inputs
Compose(type, markdown, code) ==
    /\ Len(composed) < MaxEvals
    /\ composed' = Append(composed,
                      [type |-> type, markdown |-> markdown, code |-> code,
                       prompt |-> getPrompt(type, markdown, code)])
    /\ UNCHANGED <<pageVars, routeVars, classified>>

NextPrompt ==
    \E type \in PromptTypes, markdown \in PromptTexts, code \in PromptTexts :
        Compose(type, markdown, code)

\* getPrompt called again and again in a server process, whatever its key
SpecPrompt == InitPost /\ [][NextPrompt]_vars

\* the lists the page can hold: up to MaxFiles files that isValidFile admits
UploadedLists ==
    UNION {[1..n -> {f \in SelectableFiles : isValidFile(f)}] : n \in 0..MaxFiles}

\* one evaluation of hasRequiredFiles() and of the two find calls on the
\* uploaded list: Array.prototype.some and find leave the array as it is
Classify ==
    /\ Len(classified) < MaxEvals
    /\ classified' = Append(classified,
                        [files |-> uploadedFiles,
                         ready |-> hasRequiredFiles(uploadedFiles),
                         markdownFile |-> findMarkdownFile(uploadedFiles),
                         codeFile |-> findCodeFile(uploadedFiles)])
    /\ UNCHANGED <<pageVars, routeVars, composed>>

\* the page holding any list of admitted files
InitClassify == StartWith({Str(<<"nvapi-1">>)}, UploadedLists)

NextClassify == Classify

\* the uploaded list evaluated again and again while it does not change
SpecClassify == InitClassify /\ [][NextClassify]_vars

\* ===================================================== claims on the route
\* the text of the first completion of a parsed upstream body, '' when the
\* list, its first element, that element's message or the content is missing
FirstCompletionText(data) ==
    IF data.hasChoices /\ data.choices # <<>>
    THEN LET first == Head(data.choices) IN
         IF first.hasMessage /\ first.content # Undef THEN first.content.v ELSE <<>>
    ELSE <<>>

\* the upstream call returned a 2xx status and a body that parsed
UpstreamSucceeded ==
    upRes.kind = "answer" /\ upRes.status \in 200..299 /\ upRes.parses

\* the upstream call returned a status outside 2xx
UpstreamRefused == upRes.kind = "answer" /\ upRes.status \notin 200..299

\* a request field that is absent or empty once trimmed
EmptyAfterTrim(x) == x = Undef \/ Trim(x.v) = <<>>

\* a request field that is absent or the empty string
AbsentOrEmpty(x) == x = Undef \/ x = Str(<<>>)

KeyAbsent == apiKey = Undef \/ apiKey = Str(<<>>)

\* C1: a request with a recognised mode whose upstream call returns 2xx with a
\* non-empty first completion is answered 200 with exactly the field of its
\* mode set, to the completion text unchanged, and the other two fields unset.
C1_SuccessFillsOnlyTheModeField ==
    (/\ spc = "responded"
     /\ req.type \in {Str(TypeSummary), Str(TypeCursor), Str(TypeReadme)}
     /\ UpstreamSucceeded
     /\ FirstCompletionText(upRes.data) # <<>>)
    => LET text == Str(FirstCompletionText(upRes.data)) IN
       /\ resp.status = 200
       /\ resp.body.error = Undef
       /\ resp.body.summary = (IF req.type = Str(TypeSummary) THEN text ELSE Undef)
       /\ resp.body.cursorLog = (IF req.type = Str(TypeCursor) THEN text ELSE Undef)
       /\ resp.body.readme = (IF req.type = Str(TypeReadme) THEN text ELSE Undef)

C1_Witness ==
    /\ spc = "responded"
    /\ req.type = Str(TypeCursor)
    /\ upRes.status = 201
    /\ resp.status = 200
    /\ resp.body = [NoBody EXCEPT !.cursorLog = Str(<<"Built X using Y.">>)]

\* C2: a request whose markdown or code is empty after trimming whitespace
\* (whitespace-only included) is answered BadInput with status 400, and no call
\* to the completion service is made for it.
C2_TrimmedEmptyInputIsBadInput ==
    (/\ spc \in {"awaiting", "responded"}
     /\ req.body = "object"
     /\ EmptyAfterTrim(req.markdown) \/ EmptyAfterTrim(req.code))
    => /\ calls = 0
       /\ spc = "responded"
       /\ resp = ErrorResponse(MsgFieldsRequired, 400)

\* C3: a non-2xx upstream status s alone decides the failure: 401 Unauthorized,
\* 429 RateLimited, s >= 500 UpstreamUnavailable, anything else the generic
\* failure; the raw upstream body is in no field of the response.
C3_UpstreamStatusDecidesFailure ==
    (spc = "responded" /\ UpstreamRefused)
    => /\ resp.body.error =
            Str(CASE upRes.status = 401 -> <<"Invalid ", "API key">>
                  [] upRes.status = 429 -> <<"Rate limit exceeded. Please try again later.">>
                  [] upRes.status \notin {401, 429} /\ upRes.status >= 500 ->
                       <<"NVIDIA API service unavailable">>
                  [] OTHER -> <<"Failed to generate content">>)
       /\ \A f \in DOMAIN resp.body : resp.body[f] # Str(upRes.text)
       /\ resp.body.summary = Undef
       /\ resp.body.cursorLog = Undef
       /\ resp.body.readme = Undef

C3_Witness ==
    /\ spc = "responded"
    /\ upRes.kind = "answer"
    /\ upRes.status = 500
    /\ upRes.text # <<>>
    /\ resp.body.error = Str(<<"NVIDIA API service unavailable">>)

\* C4 as claimed: the status of an error response is fixed by its category:
\* 400 BadInput, 401 Unauthorized, 429 RateLimited, 500 for ConfigMissing,
\* UpstreamUnavailable, UpstreamEmpty and Internal, so that an upstream 503 or
\* 403 reaches the caller as 500.
C4_ErrorStatusFollowsCategory ==
    (spc = "responded" /\ resp.body.error # Undef)
    => /\ resp.status \in {400, 401, 429, 500}
       /\ resp.body.error = Str(MsgInvalidKey) => resp.status = 401
       /\ resp.body.error = Str(MsgRateLimit) => resp.status = 429
       /\ resp.body.error \in {Str(MsgConfig), Str(MsgUnavailable), Str(MsgNoContent),
                               Str(MsgGeneric), Str(MsgInternal)}
            => resp.status = 500
       /\ (UpstreamRefused /\ upRes.status \notin {401, 429}) => resp.status = 500

\* C4 as amended: an error response has status 400 for missing input and for a
\* caught SyntaxError, 500 for a missing key, an empty completion and any other
\* caught error, and for a non-2xx upstream status it has that very status.
C4_ErrorStatusPassesUpstreamStatus ==
    (spc = "responded" /\ resp.body.error # Undef)
    => IF UpstreamRefused
       THEN resp.status = upRes.status
       ELSE /\ resp.body.error \in {Str(MsgFieldsRequired), Str(MsgInvalidJson),
                                    Str(MsgConfig), Str(MsgNoContent), Str(MsgInternal)}
            /\ resp.body.error \in {Str(MsgFieldsRequired), Str(MsgInvalidJson)}
                 <=> resp.status = 400
            /\ resp.body.error \in {Str(MsgConfig), Str(MsgNoContent), Str(MsgInternal)}
                 <=> resp.status = 500

C4_Witness ==
    /\ spc = "responded"
    /\ upRes.kind = "answer"
    /\ upRes.status = 503
    /\ resp.status = 503
    /\ resp.body.error = Str(MsgUnavailable)

\* C5: a 2xx upstream answer whose first completion text is empty or absent is
\* answered UpstreamEmpty with status 500, and no success response ever carries
\* an empty-string field.
C5_EmptyCompletionIsAFailure ==
    /\ (spc = "responded" /\ UpstreamSucceeded /\ FirstCompletionText(upRes.data) = <<>>)
         => resp = ErrorResponse(<<"No content generated from AI">>, 500)
    /\ (spc = "responded" /\ resp.status \in 200..299)
         => \A f \in DOMAIN resp.body : resp.body[f] # Str(<<>>)

C5_Witness ==
    /\ spc = "responded"
    /\ UpstreamSucceeded
    /\ upRes.data.hasChoices
    /\ upRes.data.choices # <<>>
    /\ Head(upRes.data.choices).hasMessage
    /\ Head(upRes.data.choices).content = Str(<<>>)
    /\ resp.status = 500
    /\ resp.body.error = Str(MsgNoContent)

\* C9: for a mode string that is none of the three recognised ones the prompt
\* sent is the combined template, the upstream call is still made, and a
\* non-empty completion is answered 200 with none of the three fields set.
C9_UnknownModeDiscardsTheText ==
    req.type = Str(TypeOther)
    => /\ calls > 0 =>
            upCall.prompt =
                <<"You're an AI summarizer for engineering handoffs.">> \o <<"---">>
                  \o <<"## Chat Export:">> \o req.markdown.v
                  \o <<"## Final Code:">> \o req.code.v \o <<"---">>
                  \o <<"Please provide your response in the following format:">>
       /\ (spc = "responded" /\ Truthy(req.markdown) /\ Truthy(req.code) /\ ~KeyAbsent)
            => calls = 1
       /\ (spc = "responded" /\ UpstreamSucceeded /\ FirstCompletionText(upRes.data) # <<>>)
            => resp = [status |-> 200, body |-> NoBody]

C9_Witness ==
    /\ spc = "responded"
    /\ req.type = Str(TypeOther)
    /\ calls = 1
    /\ UpstreamSucceeded
    /\ FirstCompletionText(upRes.data) = <<"Built X using Y.">>
    /\ resp = [status |-> 200, body |-> NoBody]

\* C10: a request that passes input validation while the key is absent is
\* answered ConfigMissing with status 500, no prompt composed and no upstream
\* call made; with a missing field and a missing key the answer is BadInput 400.
C10_KeyIsCheckedAfterValidation ==
    (spc = "responded" /\ req.body = "object" /\ KeyAbsent)
    => IF AbsentOrEmpty(req.markdown) \/ AbsentOrEmpty(req.code)
       THEN resp = ErrorResponse(<<"Both markdown and code fields are required">>, 400)
       ELSE /\ resp = ErrorResponse(<<"Server configuration error: ", "API key", " not found">>, 500)
            /\ calls = 0
            /\ upCall = NoCall

C10_Witness ==
    /\ spc = "responded"
    /\ apiKey = Undef
    /\ req.markdown = Str(<<"x">>)
    /\ req.code = Str(<<"x">>)
    /\ resp = ErrorResponse(MsgConfig, 500)
    /\ calls = 0

\* the upstream call failed: the fetch threw, the status is outside 2xx, the
\* 2xx body did not parse, or its first completion text is empty or absent
UpstreamFailed ==
    \/ upRes.kind = "rejected"
    \/ UpstreamRefused
    \/ upRes.kind = "answer" /\ upRes.status \in 200..299 /\ ~upRes.parses
    \/ UpstreamSucceeded /\ FirstCompletionText(upRes.data) = <<>>

\* C11: while one request is handled at most one call is made to the
\* completion service; exactly one has been made once a request with both
\* fields and a key is answered; and as soon as the call has an outcome the
\* handler has answered, with an error if the outcome is a failure, and the
\* count of calls is still one.
C11_AtMostOneUpstreamCall ==
    /\ calls <= 1
    /\ (spc = "responded" /\ req.body = "object" /\ ~AbsentOrEmpty(req.markdown)
          /\ ~AbsentOrEmpty(req.code) /\ ~KeyAbsent)
         => calls = 1
    /\ upRes.kind # "none" => spc = "responded" /\ calls = 1
    /\ UpstreamFailed
         => resp.body.error # Undef /\ resp.status \notin 200..299

C11_Witness ==
    /\ spc = "responded"
    /\ upRes.kind = "rejected"
    /\ calls = 1
    /\ resp.body.error = Str(MsgInternal)

\* C12 as claimed: a request whose body cannot be parsed as JSON is answered
\* Internal, with status 500.
C12_MalformedPayloadIsInternal ==
    (spc = "responded" /\ req.body = "malformed")
    => /\ resp.status = 500
       /\ resp.body.error =
            Str(<<"Internal server error occurred while processing your request">>)

\* C12 as amended: a request whose body cannot be parsed as JSON is answered
\* with status 400 and the message 'Invalid JSON in request body', without any
\* call to the completion service.
C12_MalformedPayloadIsInvalidJson ==
    (spc = "responded" /\ req.body = "malformed")
    => /\ resp.status = 400
       /\ resp.body = [NoBody EXCEPT !.error = Str(<<"Invalid JSON in request body">>)]
       /\ calls = 0

C12_Witness ==
    /\ spc = "responded"
    /\ req.body = "malformed"
    /\ resp.status = 400
    /\ resp.body.error = Str(MsgInvalidJson)
    /\ serverLog # <<>>

\* the request is one the caller got wrong: a body that is not JSON, or a
\* markdown or code field that is absent or empty
CallerInputInvalid ==
    \/ req.body = "malformed"
    \/ AbsentOrEmpty(req.markdown)
    \/ AbsentOrEmpty(req.code)

\* C13: a 400 answer is given only to a request the caller got wrong; a failure
\* on the upstream side after validation (the fetch throws, or the 2xx body
\* cannot be parsed) is answered Internal with status 500, never 400.
C13_BadInputOnlyForCallerInput ==
    /\ (spc = "responded" /\ resp.status = 400) => CallerInputInvalid
    /\ (spc = "responded"
        /\ \/ upRes.kind = "rejected"
           \/ upRes.kind = "answer" /\ upRes.status \in 200..299 /\ ~upRes.parses)
         => /\ resp.status = 500
            /\ resp.body.error =
                 Str(<<"Internal server error occurred while processing your request">>)

\* C14: every response is either a success without an error string, or an
\* error with an error string, a non-2xx status and none of summary, cursorLog
\* and readme; an upstream 429 is answered RateLimited with no such field.
C14_SuccessOrErrorNeverBoth ==
    spc = "responded"
    => /\ \/ /\ resp.status \in 200..299
             /\ resp.body.error = Undef
          \/ /\ resp.status \notin 200..299
             /\ resp.body.error # Undef
             /\ resp.body.error.v # <<>>
             /\ resp.body.summary = Undef
             /\ resp.body.cursorLog = Undef
             /\ resp.body.readme = Undef
       /\ (upRes.kind = "answer" /\ upRes.status = 429)
            => /\ resp.status = 429
               /\ resp.body =
                    [error |-> Str(<<"Rate limit exceeded. Please try again later.">>),
                     summary |-> Undef, cursorLog |-> Undef, readme |-> Undef]

C14_Witness ==
    /\ spc = "responded"
    /\ upRes.kind = "answer"
    /\ upRes.status = 429
    /\ resp.status = 429
    /\ resp.body.error = Str(MsgRateLimit)
    /\ resp.body.summary = Undef

\* the mode of the request is summary, given or defaulted
ModeIsSummary == req.type = Undef \/ req.type = Str(<<"summary">>)

\* C15: the call sent to the completion service has max_tokens 512 exactly
\* when the mode is summary, given or defaulted, and 2048 for every other mode,
\* recognised or not; it is non-streaming, with temperature 0.7 and top_p 1.
C15_TokenCapFollowsMode ==
    calls > 0
    => /\ upCall.max_tokens = (IF ModeIsSummary THEN 512 ELSE 2048)
       /\ upCall.stream = FALSE
       /\ upCall.temperature = "0.7"
       /\ upCall.top_p = 1

C15_Witness ==
    /\ calls = 1
    /\ req.type = Str(TypeOther)
    /\ upCall.max_tokens = 2048
    /\ upCall.stream = FALSE

C17_DefaultRequestReturnsReadmeAndCursorLog ==
    (/\ spc = "responded"
     /\ req.body = "object"
     /\ req.type = Undef
     /\ resp.status \in 200..299)
    => /\ resp.body.readme # Undef
       /\ resp.body.cursorLog # Undef

\* text occurs in prompt from position at on
OccursAt(prompt, text, at) ==
    /\ at >= 1
    /\ at + Len(text) - 1 <= Len(prompt)
    /\ SubSeq(prompt, at, at + Len(text) - 1) = text

\* C19 as claimed: the prompt is instruction text, a '---' separator, the chat
\* transcript, a '---' separator, the code, then optional trailing text: a
\* separator precedes the transcript and another stands between the end of the
\* transcript and the start of the code.
C19_SeparatorBetweenTranscriptAndCode ==
    calls > 0
    => LET prompt == upCall.prompt
           markdown == req.markdown.v
           code == req.code.v
       IN \E first, chat, second, final \in 1..Len(prompt) :
            /\ prompt[first] = "---"
            /\ first < chat
            /\ OccursAt(prompt, markdown, chat)
            /\ chat + Len(markdown) <= second
            /\ prompt[second] = "---"
            /\ second < final
            /\ OccursAt(prompt, code, final)

\* C19 as amended: the prompt is the instruction text of the template, one
\* '---', a chat heading, the transcript, the heading '## Final Code:', the
\* code and, for the cursor and the combined template only, a second '---' and
\* trailing text; transcript and code are inserted verbatim, once each, the
\* transcript first, with no separator between them.
C19_PromptShape ==
    calls > 0
    => LET markdown == req.markdown.v
           code == req.code.v
           body(heading) == <<"---">> \o <<heading>> \o markdown
                              \o <<"## Final Code:">> \o code
       IN upCall.prompt =
            CASE ModeIsSummary ->
                   <<"Summarize the following AI-assisted development session in 2-3 sentences.">>
                     \o body("## Chat Transcript:")
              [] req.type = Str(<<"cursor">>) ->
                   <<"You are an AI memory generator for coding assistants like Cursor.">>
                     \o body("## Chat Transcript:") \o <<"---">>
                     \o <<"Please return only the structured context document">>
              [] req.type = Str(<<"readme">>) ->
                   <<"You are a senior AI developer assistant.">>
                     \o body("## Chat Transcript:")
              [] OTHER ->
                   <<"You're an AI summarizer for engineering handoffs.">>
                     \o body("## Chat Export:") \o <<"---">>
                     \o <<"Please provide your response in the following format:">>

C19_Witness ==
    /\ calls = 1
    /\ req.type = Str(TypeCursor)
    /\ req.markdown = Str(<<" ", "x", "\n">>)
    /\ req.code = Str(<<"x">>)
    /\ Len(upCall.prompt) = 10
    /\ upCall.prompt[7] = "## Final Code:"
    /\ upCall.prompt[9] = "---"

\* a text names the credential: it holds the words 'API key' or the name of
\* the environment variable
NamesTheCredential(text) ==
    \E i \in 1..Len(text) : text[i] \in {"API key", "NVIDIA_API_KEY"}

\* C20: when the key is missing the error message of the response does not
\* name the credential; only the server-side log does.
C20_MissingKeyMessageIsGeneric ==
    (/\ spc = "responded"
     /\ req.body = "object"
     /\ ~AbsentOrEmpty(req.markdown)
     /\ ~AbsentOrEmpty(req.code)
     /\ KeyAbsent)
    => /\ resp.status = 500
       /\ resp.body.error # Undef
       /\ ~NamesTheCredential(resp.body.error.v)
       /\ \E i \in 1..Len(serverLog) : NamesTheCredential(serverLog[i].line)

\* text occurs somewhere in whole
OccursIn(whole, text) ==
    \E at \in 1..(Len(whole) - Len(text) + 1) : OccursAt(whole, text, at)

\* the response to request r when the key is set and the upstream call has
\* outcome o, written from r and o alone
ResponseFrom(r, o) ==
    LET failure(message, status) ==
            [status |-> status,
             body |-> [error |-> Str(message), summary |-> Undef,
                       cursorLog |-> Undef, readme |-> Undef]]
        text == FirstCompletionText(o.data)
        field == IF r.type \in {Undef, Str(<<"summary">>)} THEN "summary"
                 ELSE IF r.type = Str(<<"cursor">>) THEN "cursorLog"
                 ELSE IF r.type = Str(<<"readme">>) THEN "readme"
                 ELSE "none"
    IN IF r.body = "malformed"
       THEN failure(<<"Invalid JSON in request body">>, 400)
       ELSE IF AbsentOrEmpty(r.markdown) \/ AbsentOrEmpty(r.code)
       THEN failure(<<"Both markdown and code fields are required">>, 400)
       ELSE IF o.kind = "rejected"
       THEN failure(<<"Internal server error occurred while processing your request">>, 500)
       ELSE IF o.kind = "answer" /\ o.status \notin 200..299
       THEN failure(CASE o.status = 401 -> <<"Invalid ", "API key">>
                      [] o.status = 429 -> <<"Rate limit exceeded. Please try again later.">>
                      [] o.status \notin {401, 429} /\ o.status >= 500 ->
                           <<"NVIDIA API service unavailable">>
                      [] OTHER -> <<"Failed to generate content">>,
                    o.status)
       ELSE IF o.kind = "answer" /\ ~o.parses
       THEN failure(<<"Invalid JSON in request body">>, 400)
       ELSE IF o.kind = "answer" /\ text = <<>>
       THEN failure(<<"No content generated from AI">>, 500)
       ELSE IF o.kind = "answer"
       THEN [status |-> 200,
             body |-> [f \in {"error", "summary", "cursorLog", "readme"} |->
                         IF f = field THEN Str(text) ELSE Undef]]
       ELSE [status |-> 0,
             body |-> [f \in {"error", "summary", "cursorLog", "readme"} |-> Undef]]

\* C21: with the key set, the response is settled by the request and the
\* upstream outcome alone, so two runs that differ in the key only answer
\* alike; the key is in no field of the response and in no log line, and of
\* the outbound call only the Authorization header holds it.
C21_ResponseIndependentOfKey ==
    ~KeyAbsent
    => /\ spc = "responded" =>
            /\ resp = ResponseFrom(req, upRes)
            /\ \A f \in DOMAIN resp.body :
                 resp.body[f] # Undef => ~OccursIn(resp.body[f].v, apiKey.v)
            /\ \A i \in 1..Len(serverLog) :
                 ~OccursIn(serverLog[i].line, apiKey.v) /\ ~OccursIn(serverLog[i].text, apiKey.v)
       /\ calls > 0 =>
            /\ upCall.authorization = <<"Bearer ">> \o apiKey.v
            /\ ~OccursIn(upCall.url, apiKey.v)
            /\ ~OccursIn(upCall.model, apiKey.v)
            /\ ~OccursIn(upCall.prompt, apiKey.v)

C21_Witness ==
    /\ spc = "responded"
    /\ apiKey = Str(<<"nvapi-2">>)
    /\ upCall.authorization = <<"Bearer ", "nvapi-2">>
    /\ req.type = Str(TypeReadme)
    /\ resp.status = 200
    /\ resp.body.readme = Str(<<"Built X using Y.">>)

ExtensionOfName(name) ==
    LET dots == {i \in 1..Len(name) : name[i] = "."} IN
    IF dots = {} THEN <<>>
    ELSE LET last == CHOOSE i \in dots : \A j \in dots : j <= i IN
         ToLowerCase(SubSeq(name, last + 1, Len(name)))

\* the category of a file: Chat for .md and .txt, Code for .js and .ts
CategoryOf(f) ==
    LET e == ExtensionOfName(f.name) IN
    IF e \in {<<"m", "d">>, <<"t", "x", "t">>} THEN "Chat"
    ELSE IF e \in {<<"j", "s">>, <<"t", "s">>} THEN "Code"
    ELSE "Unrecognized"

HasCategory(files, category) ==
    \E i \in 1..Len(files) : CategoryOf(files[i]) = category

\* f is the lowest-index file of the uploaded list with the given category
IsFirstOfCategory(f, category) ==
    \E i \in 1..Len(uploadedFiles) :
        /\ uploadedFiles[i] = f
        /\ CategoryOf(f) = category
        /\ \A j \in 1..(i - 1) : CategoryOf(uploadedFiles[j]) # category

\* C6: generateContent invoked while the uploaded list lacks a Chat file or
\* lacks a Code file sets the BadInput message and returns: nothing is read,
\* nothing is sent, and isLoading, loadingType and results keep their values.
C6_MissingFilesFailFast ==
    [][(/\ \E type \in GenerationTypes : generateContent(type)
        /\ ~HasCategory(uploadedFiles, "Chat") \/ ~HasCategory(uploadedFiles, "Code"))
       => /\ error' = MsgRequiredFiles
          /\ UNCHANGED <<isLoading, loadingType, results, gpc, gen, routeVars>>]_vars

\* C7: the chat file generateContent takes is the lowest-index Chat file of the
\* list and the code file the lowest-index Code file, each chosen on its own.
C7_FirstFileOfEachCategoryIsTaken ==
    [][(/\ \E type \in GenerationTypes : generateContent(type)
        /\ gens' = gens + 1)
       => /\ IsFirstOfCategory(gen'[gens'].markdownFile, "Chat")
          /\ IsFirstOfCategory(gen'[gens'].codeFile, "Code")]_vars

\* C8: a file without extension, or with one outside the two lists, is
\* Unrecognized: it never makes hasRequiredFiles true and is never taken as
\* the chat or the code file.
C8_FilesWithoutExtensionAreUnrecognized ==
    /\ hasRequiredFiles(uploadedFiles)
         => HasCategory(uploadedFiles, "Chat") /\ HasCategory(uploadedFiles, "Code")
    /\ \A g \in 1..MaxGens :
         gpc[g] # "idle"
           => CategoryOf(gen[g].markdownFile) = "Chat" /\ CategoryOf(gen[g].codeFile) = "Code"

\* the files of a list that the data model puts in a category
Recognized(files) ==
    LET keep(f) == CategoryOf(f) # "Unrecognized" IN SelectSeq(files, keep)

\* C18: the category of a file follows from its lower-cased extension alone,
\* whatever the case of the name and whatever the MIME type: the code takes a
\* file for a chat file exactly when that extension is md or txt and for a code
\* file exactly when it is js or ts, so a file admitted on its MIME type alone
\* adds nothing to hasRequiredFiles and is never taken as chat or code file.
C18_CategoryFollowsLowerCasedExtension ==
    /\ \A i \in 1..Len(uploadedFiles) :
         LET f == uploadedFiles[i] IN
         /\ isChatFile(f) <=> CategoryOf(f) = "Chat"
         /\ isCodeFile(f) <=> CategoryOf(f) = "Code"
    /\ hasRequiredFiles(uploadedFiles) <=> hasRequiredFiles(Recognized(uploadedFiles))
    /\ \A g \in 1..MaxGens :
         gpc[g] # "idle"
           => /\ ExtensionOfName(gen[g].markdownFile.name) \in {<<"m", "d">>, <<"t", "x", "t">>}
              /\ ExtensionOfName(gen[g].codeFile.name) \in {<<"j", "s">>, <<"t", "s">>}

\* the generateContent calls that have started and not yet finished
InFlight == {g \in 1..MaxGens : gpc[g] # "idle"}

\* C24: at most one generation is in flight; isLoading is true exactly while
\* one is, no generate button can be clicked while isLoading is true, and
\* loadingType is set exactly when isLoading is true, to the type of the
\* generation in flight.
C24_OneGenerationInFlight ==
    /\ Cardinality(InFlight) <= 1
    /\ isLoading <=> InFlight # {}
    /\ isLoading => \A type \in GenerationTypes : ~ENABLED ClickGenerate(type)
    /\ loadingType # Undef <=> isLoading
    /\ \A g \in InFlight : loadingType = Str(gen[g].type)

C24_Witness ==
    /\ gens = 2
    /\ gpc[1] = "idle"
    /\ gpc[2] = "fetching"
    /\ isLoading
    /\ loadingType = Str(<<"readme">>)
    /\ hasRequiredFiles(uploadedFiles)
    /\ results.summary # Undef

\* call g ends in this step with a response of the route that is OK
Succeeds(g) == FetchSettles(g) /\ resp.status \in 200..299

\* call g ends in this step in any other way
Fails(g) == gpc[g] # "idle" /\ gpc'[g] = "idle" /\ ~Succeeds(g)

\* the field of results that a generation of the given type is to write
FieldOf(type) ==
    IF type = <<"summary">> THEN "summary"
    ELSE IF type = <<"cursor">> THEN "cursorLog"
    ELSE "readme"

\* C25: a generation of type T that succeeds writes the generated text to the
\* field of T and leaves the two other fields of results as they were; a
\* generation that fails leaves results as it was and sets a non-empty error.
C25_GenerationWritesOnlyItsField ==
    [][\A g \in 1..MaxGens :
          /\ Succeeds(g)
               => /\ results'[FieldOf(gen[g].type)] = resp.body[FieldOf(gen[g].type)]
                  /\ resp.body[FieldOf(gen[g].type)] # Undef
                  /\ \A f \in DOMAIN results \ {FieldOf(gen[g].type)} :
                       results'[f] = results[f]
          /\ Fails(g) => results' = results /\ error' # <<>>]_vars

C25_Witness ==
    /\ gens = 2
    /\ ~isLoading
    /\ results.summary = Str(<<"Built X using Y.">>)
    /\ results.cursorLog = Str(<<"Refactored Z.">>)
    /\ results.readme = Undef

\* the messages a failed generation can set
GenerationErrors ==
    {MsgUnknown, MsgFailedToFetch, MsgUnexpectedToken, MsgNotFound,
     MsgFieldsRequired, MsgConfig, MsgInternal, MsgInvalidJson, MsgNoContent,
     MsgRateLimit, MsgInvalidKey, MsgUnavailable, MsgGeneric}
      \cup {httpMessage(status) : status \in {200, 502}}

\* C26: the error set by a failed generation stays until the next generation
\* starts: no other step, the firing of the 3-second timer of handleFileSelect
\* included, clears or replaces it.
C26_GenerationErrorStaysDisplayed ==
    [][(error \in GenerationErrors /\ error' # error) => gens' = gens + 1]_vars

\* C27: whenever isLoading is true it is later false again, with loadingType
\* null, whichever way the generation ends, provided the reads settle, the
\* route answers and the fetch settles.
C27_LoadingEventuallyEnds ==
    isLoading ~> (~isLoading /\ loadingType = Undef)

C27_Witness ==
    /\ gens = 1
    /\ InFlight = {}
    /\ ~isLoading
    /\ loadingType = Undef
    /\ error = MsgUnexpectedToken

====
